---- MODULE Spec2Model ----
(***************************************************************************)
(* Model of selena_from_nalog_gov.py: BalanceSheetDownloader, the batch    *)
(* runner process_inns, the search with its retry decorator, the two       *)
(* download flows, the directory poll, the relocation of a downloaded file *)
(* and its verification.                                                   *)
(*                                                                         *)
(* File names are sequences of one-character strings, so that pathlib's    *)
(* stem/suffix split, str.endswith and the f-string that builds the        *)
(* collision name are computed, not assumed.  A path inside the organized  *)
(* tree is the triple <<inn, year label, name>>, standing for              *)
(* downloads/<inn>/<label>/<name>.  DownloadResult.timestamp is left out:  *)
(* nothing reads it.                                                       *)
(***************************************************************************)
EXTENDS Integers, Sequences, FiniteSets, TLC

(***************************************************************************)
(* Bounds of the model.                                                    *)
(***************************************************************************)
Timeout == 3          \* seconds of the poll window of _wait_for_download explored
                      \* (the parameter's default in the code is 30)
MaxTriggers == 1      \* downloads the browser may have in flight at once
MaxTreeFiles == 5     \* files in the organized tree, where relocation is run alone
MaxEntries == 2       \* <ins> elements on the result page, where the search is run alone
MaxNewFiles == 2      \* files the browser creates during one poll window, where the poll is run alone

(***************************************************************************)
(* Values.                                                                 *)
(***************************************************************************)
None == "None"        \* Python None in a string-valued field
Session == "chrome"   \* the browser session webdriver.Chrome() starts
NoFile == <<>>        \* None (or "") where a file name is expected
NoPath == <<>>        \* None where a path is expected

INNS == {"A", "B"}

Dot == "."
S_zip == <<".", "z", "i", "p">>
S_crdownload == <<".", "c", "r", "d", "o", "w", "n", "l", "o", "a", "d">>
S_tmp == <<".", "t", "m", "p">>
N_report_zip == <<"r">> \o S_zip
N_report_1_zip == <<"r", "_", "1">> \o S_zip
N_report_2_zip == <<"r", "_", "2">> \o S_zip

(***************************************************************************)
(* str and pathlib helpers.                                                *)
(***************************************************************************)
EndsWith(s, suf) ==
    /\ Len(s) >= Len(suf)
    /\ SubSeq(s, Len(s) - Len(suf) + 1, Len(s)) = suf

\* str.rfind('.') as a 1-based index, 0 when there is no dot
RFindDot(s) ==
    LET dots == {k \in 1..Len(s) : s[k] = Dot}
    IN  IF dots = {} THEN 0 ELSE CHOOSE k \in dots : \A j \in dots : j <= k

\* PurePath.suffix: the last dot-part, unless the dot leads or ends the name
Suffix(name) ==
    LET k == RFindDot(name)
    IN  IF 1 < k /\ k < Len(name) THEN SubSeq(name, k, Len(name)) ELSE <<>>

\* PurePath.stem
Stem(name) ==
    LET k == RFindDot(name)
    IN  IF 1 < k /\ k < Len(name) THEN SubSeq(name, 1, k - 1) ELSE name

Digits == <<"0", "1", "2", "3", "4", "5", "6", "7", "8", "9">>

\* str(counter) for counter >= 0
RECURSIVE IntToStr(_)
IntToStr(n) ==
    IF n < 10 THEN <<Digits[n + 1]>>
    ELSE IntToStr(n \div 10) \o <<Digits[(n % 10) + 1]>>

\* str.lower() on the characters the model uses
Lower(s) ==
    [k \in 1..Len(s) |-> IF s[k] = "Z" THEN "z"
                         ELSE IF s[k] = "I" THEN "i"
                         ELSE IF s[k] = "P" THEN "p" ELSE s[k]]

(***************************************************************************)
(* Files.  A file is its content class and the download that produced it   *)
(* (origin = <<position in the input list, year label>>; <<0, "old">> for  *)
(* a file left by an earlier run).                                         *)
(***************************************************************************)
\* content classes: a sound archive with and without an .xlsx entry, an
\* archive with a corrupted entry, an archive whose corrupted entry has the
\* empty name, a file that is no archive, a file of zero bytes
Contents == {"zip_xlsx", "zip_noxlsx", "zip_corrupt", "zip_corrupt_noname",
             "not_zip", "empty"}

Old == <<0, "old">>

File(c, o) == [content |-> c, origin |-> o]

\* zip_ref.testzip(): <<>> for None, else <<the name of the first bad entry>>
TestZip(content) ==
    IF content = "zip_corrupt" THEN << <<"a">> >>
    ELSE IF content = "zip_corrupt_noname" THEN << <<>> >>
    ELSE <<>>

\* the truth value Python gives an Optional[str]: None and "" are false
Truthy(opt) == opt # <<>> /\ opt[1] # <<>>

\* _verify_download on a path of the given name: exists tells whether the
\* path exists, content is the content class of the file there
VerifyDownload(name, exists, content) ==
    IF ~exists THEN FALSE
    ELSE IF content = "empty" THEN FALSE                   \* st_size == 0
    ELSE IF Lower(Suffix(name)) = S_zip
         THEN IF content = "not_zip" THEN FALSE            \* BadZipFile
              ELSE IF Truthy(TestZip(content)) THEN FALSE  \* if bad_file:
              ELSE TRUE                                    \* .xlsx only logged
         ELSE TRUE

\* names present in downloads/<inn>/<year>/
TargetDirNames(t, inn, year) ==
    {p[3] : p \in {q \in DOMAIN t : q[1] = inn /\ q[2] = year}}

\* the while loop of _organize_download: target is the candidate name,
\* counter the next number to try
UniqueTargetNoLoop(names, base_name, extension, counter, target) == target

RECURSIVE UniqueTarget(_, _, _, _, _)
UniqueTarget(names, base_name, extension, counter, target) ==
    IF target \in names
    THEN UniqueTarget(names, base_name, extension, counter + 1,
                      base_name \o <<"_">> \o IntToStr(counter) \o extension)
    ELSE target

\* the path _organize_download returns
OrganizeTargetFromZero(t, filename, inn, year) ==
    <<inn, year,
      UniqueTarget(TargetDirNames(t, inn, year), Stem(filename),
                   Suffix(filename), 0, filename)>>

OrganizeTarget(t, filename, inn, year) ==
    <<inn, year,
      UniqueTarget(TargetDirNames(t, inn, year), Stem(filename),
                   Suffix(filename), 1, filename)>>

\* source_path.rename(target_path): the tree and the download directory
\* after the move
TreeAfterMove(t, d, filename, target) == (target :> d[filename]) @@ t

DirAfterMove(d, filename) == [n \in DOMAIN d \ {filename} |-> d[n]]

(***************************************************************************)
(* DownloadResult                                                          *)
(***************************************************************************)
DownloadResult(inn, year, success, file_path, error_message) ==
    [inn |-> inn, year |-> year, success |-> success,
     file_path |-> file_path, error_message |-> error_message]

YearOrAll(year) == IF year = None THEN "all" ELSE year

(***************************************************************************)
(* State.                                                                  *)
(***************************************************************************)
VARIABLES
    pc,              \* position of the run inside process_inns
    file_exists,     \* Path(inns_file).exists()
    inns,            \* the identifiers read from the input file
    i,               \* 1-based position of the loop in inns
    all_results,     \* process_inns: all_results
    result_pos,      \* for each entry of all_results, the loop position that added it
    results,         \* download_reports: results
    flow,            \* the download flow in progress: "none", "bulk", "year"
    flow_result,     \* what the flow returned: <<>> for None, else <<DownloadResult>>
    initial_files,   \* the snapshot taken before the click
    elapsed,         \* seconds slept since start_time in _wait_for_download
    downloaded_file, \* what _wait_for_download returned
    verified,        \* "unset", or what _verify_download returned in this flow
    attempt,         \* attempt number of the retry decorator around the search
    driver,          \* self.driver: None or the session it holds
    wait,            \* self.wait: None or the session it waits on
    browsers,        \* browser sessions launched and not quit
    launched,        \* number of sessions launched so far
    exc,             \* the exception leaving process_inns, None when there is none
    raised,          \* some step of the current identifier raised an Exception
    download_dir,    \* files directly in the download directory: name -> file
    tree,            \* the organized tree: <<inn, label, name>> -> file
    pending,         \* downloads triggered in the browser whose file has not appeared
    report,          \* main: <<>> until generate_report returned, then <<its report>>
    exit_code,       \* <<>> while the process runs, then <<its exit code>>
    call             \* a function run alone: its arguments and what it returned

vars == <<pc, file_exists, inns, i, all_results, result_pos, results, flow,
          flow_result, initial_files, elapsed, downloaded_file, verified,
          attempt, driver, wait, browsers, launched, exc, raised,
          download_dir, tree, pending, report, exit_code, call>>

main_vars == <<report, exit_code, call>>
batch_vars == <<file_exists, inns, i, all_results, result_pos>>
flow_vars == <<results, flow, flow_result, initial_files, elapsed,
               downloaded_file, verified>>
session_vars == <<driver, wait, browsers, launched>>
fs_vars == <<download_dir, tree, pending>>

\* the input files explored: no identifier, one, the same one twice, two
InputLists == {<<>>, <<"A">>, <<"A", "A">>, <<"A", "B">>}

\* organized trees an earlier run may have left behind
OldTrees ==
    {<<>>,
     <<"A", "all", N_report_zip>> :> File("zip_xlsx", Old)}

Init ==
    /\ pc = "start"
    /\ file_exists \in BOOLEAN
    /\ inns \in InputLists
    /\ file_exists = FALSE => inns = <<>>
    /\ i = 1
    /\ all_results = <<>>
    /\ result_pos = <<>>
    /\ results = <<>>
    /\ flow = "none"
    /\ flow_result = <<>>
    /\ initial_files = {}
    /\ elapsed = 0
    /\ downloaded_file = NoFile
    /\ verified = "unset"
    /\ attempt = 1
    /\ driver = None
    /\ wait = None
    /\ browsers = {}
    /\ launched = 0
    /\ exc = None
    /\ raised = FALSE
    /\ download_dir = <<>>
    /\ tree \in OldTrees
    /\ pending = {}
    /\ report = <<>>
    /\ exit_code = <<>>
    /\ call = <<>>

(***************************************************************************)
(* Program constants.                                                      *)
(***************************************************************************)
StopAfterAttempt == 3 \* @retry(stop=stop_after_attempt(3))

RequestedYear == None \* process_inns calls download_reports(inn): year is None
Year2023 == "2023"     \* the fixed year of download_reports, line 184

ErrText == "str(e)"
NotFoundText == "Organization not found"
VerificationText == "Download verification failed"

\* what the site serves in the runs explored: a good archive, a corrupted
\* one, an empty file
ServedContents == {"zip_xlsx", "zip_corrupt", "empty"}

\* names under which the site serves an archive
DownloadNames == {N_report_zip, N_report_1_zip}

(***************************************************************************)
(* Session Driver                                                          *)
(***************************************************************************)
\* _create_driver under the given behaviour of the browser: whether
\* webdriver.Chrome() started a session, and whether the function returned it
CreateDriverOutcomes == {"ok", "launch_fails", "script_fails"}

CreateDriver(outcome) ==
    [launched |-> outcome \in {"ok", "script_fails"},
     returned |-> outcome = "ok"]

ProcessInns_StartWithSession ==
    /\ pc = "start"
    /\ pc' = "get_driver"
    /\ UNCHANGED <<main_vars, batch_vars, flow_vars, attempt, session_vars, exc,
                   raised, fs_vars>>

\* process_inns, lines 409-411 and 414-419
ProcessInns_Start ==
    /\ pc = "start"
    /\ pc' = IF file_exists THEN "get_driver" ELSE "returned"
    /\ UNCHANGED <<main_vars, batch_vars, flow_vars, attempt, session_vars, exc,
                   raised, fs_vars>>

\* get_driver, the try part
GetDriver_Enter ==
    /\ pc = "get_driver"
    /\ \E outcome \in CreateDriverOutcomes :
         LET r == CreateDriver(outcome) IN
         /\ browsers' = IF r.launched THEN browsers \union {Session} ELSE browsers
         /\ launched' = IF r.launched THEN launched + 1 ELSE launched
         /\ driver' = IF r.returned THEN Session ELSE driver
         /\ wait' = IF r.returned THEN Session ELSE wait
         /\ exc' = IF r.returned THEN exc ELSE "WebDriverException"
         /\ pc' = IF r.returned THEN "loop" ELSE "finally"
    /\ UNCHANGED <<main_vars, batch_vars, flow_vars, attempt, raised, fs_vars>>

\* get_driver, the finally part
GetDriver_Exit ==
    /\ pc = "finally"
    /\ IF driver # None
       THEN /\ browsers' = browsers \ {driver}
            /\ driver' = None
            /\ wait' = None
       ELSE UNCHANGED <<browsers, driver, wait>>
    /\ pc' = IF exc = None THEN "returned" ELSE "raised"
    /\ UNCHANGED <<main_vars, batch_vars, flow_vars, attempt, launched, exc, raised,
                   fs_vars>>

\* KeyboardInterrupt while the loop of process_inns runs: no except clause
\* of the program catches it, the finally of get_driver runs
InLoop == {"loop", "search", "download_reports", "popup", "year", "wait",
           "after_wait", "flow_return", "dr_return", "delay"}

Interrupt ==
    /\ pc \in InLoop
    /\ exc' = "KeyboardInterrupt"
    /\ pc' = "finally"
    /\ UNCHANGED <<main_vars, batch_vars, flow_vars, attempt, session_vars, raised,
                   fs_vars>>

(***************************************************************************)
(* Batch Runner                                                            *)
(***************************************************************************)
\* all_results.extend(rs) / all_results.append(r) at loop position i
Extend(rs) ==
    /\ all_results' = all_results \o rs
    /\ result_pos' = result_pos \o [k \in 1..Len(rs) |-> i]

\* for i, inn in enumerate(inns, 1)
ProcessInns_Loop ==
    /\ pc = "loop"
    /\ pc' = IF i <= Len(inns) THEN "search" ELSE "finally"
    /\ attempt' = 1
    /\ raised' = FALSE
    /\ UNCHANGED <<main_vars, batch_vars, flow_vars, session_vars, exc, fs_vars>>

(***************************************************************************)
(* Navigator                                                               *)
(***************************************************************************)
\* what the site does to one attempt of the search
SiteAnswers == {"match", "no_match", "no_container", "error"}

\* the body of search_organization: every Exception is caught inside it
SearchBody(site) ==
    [raised |-> FALSE, value |-> site = "match"]

\* tenacity's @retry around an attempt that ended as out: a returned value
\* is final, an Exception is retried until stop_after_attempt
RetryDecision(out, n) ==
    IF ~out.raised THEN "return"
    ELSE IF n >= StopAfterAttempt THEN "retry_error"
    ELSE "again"

\* process_inns, lines 427 and 438: where the loop body goes on the
\* value search_organization returned
AfterSearchAlwaysDownloads(found) == "download_reports"

AfterSearch(found) == IF found THEN "download_reports" ELSE "delay"

\* process_inns, lines 439-446 (search returned False) and 448-457 (the
\* search raised): what is appended to all_results
Failure(inn, year, msg) == DownloadResult(inn, year, FALSE, NoPath, msg)

SearchResults(inn, found, msg) ==
    IF found THEN <<>> ELSE <<Failure(inn, None, msg)>>

\* process_inns, lines 425-457, around one attempt of search_organization
SearchOrganization ==
    /\ pc = "search"
    /\ \E site \in SiteAnswers :
         LET out == SearchBody(site)
             d == RetryDecision(out, attempt)
         IN  /\ raised' = (raised \/ site \in {"no_container", "error"})
             /\ CASE d = "again" ->
                       /\ attempt' = attempt + 1
                       /\ pc' = "search"
                       /\ UNCHANGED <<all_results, result_pos>>
                  [] d = "retry_error" ->
                       /\ Extend(SearchResults(inns[i], FALSE, ErrText))
                       /\ pc' = "delay"
                       /\ UNCHANGED attempt
                  [] d = "return" ->
                       /\ Extend(SearchResults(inns[i], out.value, NotFoundText))
                       /\ pc' = AfterSearch(out.value)
                       /\ UNCHANGED attempt
    /\ UNCHANGED <<main_vars, file_exists, inns, i, flow_vars, session_vars, exc, fs_vars>>

(***************************************************************************)
(* Download Orchestrator                                                   *)
(***************************************************************************)
\* the locals of a flow once it has returned and its result is consumed
FlowLocalsDropped ==
    /\ flow' = "none"
    /\ flow_result' = <<>>
    /\ initial_files' = {}
    /\ elapsed' = 0
    /\ downloaded_file' = NoFile
    /\ verified' = "unset"

\* download_reports with no except clause around a process_inns that has
\* none either: the Exception leaves the loop
DownloadReports_OpenUncaught ==
    /\ pc = "download_reports"
    /\ \E ok \in BOOLEAN :
         IF ok
         THEN /\ results' = <<>>
              /\ pc' = "popup"
              /\ UNCHANGED <<raised, exc>>
         ELSE /\ results' = <<>>
              /\ pc' = "finally"
              /\ raised' = TRUE
              /\ exc' = "Exception"
    /\ UNCHANGED <<main_vars, batch_vars, flow, flow_result, initial_files, elapsed,
                   downloaded_file, verified, attempt, session_vars, fs_vars>>

\* download_reports, lines 162-175, and its except clause when a wait or
\* the click raises
DownloadReports_Open ==
    /\ pc = "download_reports"
    /\ \E ok \in BOOLEAN :
         IF ok
         THEN /\ results' = <<>>
              /\ pc' = "popup"
              /\ UNCHANGED raised
         ELSE /\ results' = <<Failure(inns[i], RequestedYear, ErrText)>>
              /\ pc' = "dr_return"
              /\ raised' = TRUE
    /\ UNCHANGED <<main_vars, batch_vars, flow, flow_result, initial_files, elapsed,
                   downloaded_file, verified, attempt, session_vars, exc,
                   fs_vars>>

\* the click on "download archive": the browser starts a download, unless
\* it already has MaxTriggers of them in flight
Trigger(label) ==
    IF Cardinality(pending) < MaxTriggers
    THEN pending \union {<<i, label>>}
    ELSE pending

\* lines 203-225 / 267-289 of a flow: the waits and clicks, the snapshot
\* and the click that triggers the download; or an Exception from a wait
\* or a click, caught by the except clause of the flow
FlowTrigger(f, label, year) ==
    /\ flow' = f
    /\ verified' = "unset"
    /\ downloaded_file' = NoFile
    /\ \E ok \in BOOLEAN :
         IF ok
         THEN /\ initial_files' = DOMAIN download_dir
              /\ pending' = Trigger(label)
              /\ elapsed' = 0
              /\ flow_result' = <<>>
              /\ pc' = "wait"
              /\ UNCHANGED raised
         ELSE /\ flow_result' = <<Failure(inns[i], year, ErrText)>>
              /\ pc' = "flow_return"
              /\ raised' = TRUE
              /\ UNCHANGED <<initial_files, pending, elapsed>>
    /\ UNCHANGED <<main_vars, batch_vars, results, attempt, session_vars, exc,
                   download_dir, tree>>

HandleDownloadPopup_Trigger ==
    /\ pc = "popup"
    /\ FlowTrigger("bulk", YearOrAll(RequestedYear), RequestedYear)

DownloadSpecificYear_Trigger ==
    /\ pc = "year"
    /\ FlowTrigger("year", Year2023, Year2023)

\* str.endswith('.crdownload') or str.endswith('.tmp')
IsPartialCrdownloadOnly(name) == EndsWith(name, S_crdownload)

IsPartial(name) == EndsWith(name, S_crdownload) \/ EndsWith(name, S_tmp)

WaitForDownload_PollRestarts ==
    /\ pc = "wait"
    /\ IF elapsed < Timeout
       THEN LET new_files == (DOMAIN download_dir) \ initial_files
            IN  IF new_files # {}
                THEN \E new_file \in new_files :
                       IF ~IsPartial(new_file)
                       THEN /\ downloaded_file' = new_file
                            /\ elapsed' = 0
                            /\ pc' = "after_wait"
                       ELSE /\ elapsed' = 0
                            /\ UNCHANGED <<downloaded_file, pc>>
                ELSE /\ elapsed' = elapsed + 1
                     /\ UNCHANGED <<downloaded_file, pc>>
       ELSE /\ downloaded_file' = NoFile
            /\ elapsed' = 0
            /\ pc' = "after_wait"
    /\ UNCHANGED <<main_vars, batch_vars, results, flow, flow_result,
                   initial_files, verified, attempt, session_vars, exc, raised,
                   fs_vars>>

\* one iteration of the while loop of _wait_for_download, or its exit.
\* iterdir() lists in no particular order: new_files[0] is any new file.
\* elapsed is local to the call: it is dropped when the call returns.
WaitForDownload_Poll ==
    /\ pc = "wait"
    /\ IF elapsed < Timeout
       THEN LET current_files == DOMAIN download_dir
                new_files == current_files \ initial_files
            IN  IF new_files # {}
                THEN \E new_file \in new_files :
                       IF ~IsPartial(new_file)
                       THEN /\ downloaded_file' = new_file
                            /\ elapsed' = 0
                            /\ pc' = "after_wait"
                       ELSE /\ elapsed' = elapsed + 3
                            /\ UNCHANGED <<downloaded_file, pc>>
                ELSE /\ elapsed' = elapsed + 1
                     /\ UNCHANGED <<downloaded_file, pc>>
       ELSE /\ downloaded_file' = NoFile
            /\ elapsed' = 0
            /\ pc' = "after_wait"
    /\ UNCHANGED <<main_vars, batch_vars, results, flow, flow_result, initial_files,
                   verified, attempt, session_vars, exc, raised, fs_vars>>

PopupResultKeepsPath(inn, year, ok, path) ==
    IF ok
    THEN <<DownloadResult(inn, YearOrAll(year), TRUE, path, None)>>
    ELSE <<DownloadResult(inn, YearOrAll(year), FALSE, path, VerificationText)>>

\* lines 233-250: the result of the bulk flow once the file is relocated
PopupResult(inn, year, ok, path) ==
    IF ok
    THEN <<DownloadResult(inn, YearOrAll(year), TRUE, path, None)>>
    ELSE <<Failure(inn, YearOrAll(year), VerificationText)>>

\* lines 296-304 and 317: the result of the year flow once the file is
\* relocated; a rejected file falls through to "return None"
SpecificYearResult(inn, year, ok, path) ==
    IF ok
    THEN <<DownloadResult(inn, year, TRUE, path, None)>>
    ELSE <<>>

\* lines 230-263 / 293-317: relocate, verify, build the result; a poll
\* that returned no file falls through to "return None"; an OSError from
\* mkdir or rename is caught by the except clause of the flow, which
\* reports it under the year the flow was called with
FlowFinish(label, year) ==
    /\ pc = "after_wait"
    /\ IF downloaded_file # NoFile
       THEN \E moved \in BOOLEAN :
              IF moved
              THEN LET target == OrganizeTarget(tree, downloaded_file, inns[i], label)
                       ok == VerifyDownload(target[3], TRUE,
                                            download_dir[downloaded_file].content)
                   IN  /\ tree' = TreeAfterMove(tree, download_dir,
                                                downloaded_file, target)
                       /\ download_dir' = DirAfterMove(download_dir, downloaded_file)
                       /\ verified' = IF ok THEN "true" ELSE "false"
                       /\ flow_result' =
                            IF flow = "bulk"
                            THEN PopupResult(inns[i], year, ok, target)
                            ELSE SpecificYearResult(inns[i], year, ok, target)
                       /\ UNCHANGED raised
              ELSE /\ flow_result' = <<Failure(inns[i], year, ErrText)>>
                   /\ raised' = TRUE
                   /\ UNCHANGED <<tree, download_dir, verified>>
       ELSE /\ flow_result' = <<>>
            /\ UNCHANGED <<tree, download_dir, verified, raised>>
    /\ initial_files' = {}
    /\ downloaded_file' = NoFile
    /\ pc' = "flow_return"
    /\ UNCHANGED <<main_vars, batch_vars, results, flow, elapsed, attempt, session_vars,
                   exc, pending>>

HandleDownloadPopup_Finish ==
    /\ flow = "bulk"
    /\ FlowFinish(YearOrAll(RequestedYear), RequestedYear)

DownloadSpecificYear_Finish ==
    /\ flow = "year"
    /\ FlowFinish(Year2023, Year2023)

\* download_reports, lines 178-186: keep the result of the flow if there is
\* one; after the bulk flow, the year flow when no year was requested
DownloadReports_Collect ==
    /\ pc = "flow_return"
    /\ results' = results \o flow_result
    /\ pc' = IF flow = "bulk" /\ RequestedYear = None THEN "year" ELSE "dr_return"
    /\ FlowLocalsDropped
    /\ UNCHANGED <<main_vars, batch_vars, attempt, session_vars, exc, raised, fs_vars>>

\* process_inns, lines 429-437: all_results.extend(results)
ProcessInns_Extend ==
    /\ pc = "dr_return"
    /\ Extend(results)
    /\ results' = <<>>
    /\ pc' = "delay"
    /\ UNCHANGED <<main_vars, file_exists, inns, i, flow, flow_result, initial_files,
                   elapsed, downloaded_file, verified, attempt, session_vars,
                   exc, raised, fs_vars>>

\* process_inns, line 460, and the step of the for loop
ProcessInns_Delay ==
    /\ pc = "delay"
    /\ i' = i + 1
    /\ pc' = "loop"
    /\ UNCHANGED <<main_vars, file_exists, inns, all_results, result_pos, flow_vars,
                   attempt, session_vars, exc, raised, fs_vars>>

(***************************************************************************)
(* Reporter and entry point                                                *)
(***************************************************************************)
\* len(set(r.inn for r in results))
TotalInns(rs) == Cardinality({rs[j].inn : j \in 1..Len(rs)})

\* len([r for r in results if r.success])
SuccessfulDownloads(rs) == Cardinality({j \in 1..Len(rs) : rs[j].success})

\* len([r for r in results if not r.success])
FailedDownloads(rs) == Cardinality({j \in 1..Len(rs) : ~rs[j].success})

\* (s / n * 100) printed with one decimal, as a number of tenths of a
\* percent; n is not zero
SuccessRate(s, n) == (2000 * s + n) \div (2 * n)

\* one line of the detailed results: the status mark, the identifier,
\* year or 'all', then file_path or error_message
DetailLine(r) ==
    [status |-> IF r.success THEN "ok" ELSE "failed",
     inn |-> r.inn,
     year |-> YearOrAll(r.year),
     file_path |-> r.file_path,
     error_message |-> IF r.file_path # NoPath THEN None ELSE r.error_message]

\* generate_report(results): the division by len(results) raises
\* ZeroDivisionError for the empty list, before any report exists
GenerateReport(rs) ==
    IF Len(rs) = 0
    THEN [raised |-> TRUE]
    ELSE [raised |-> FALSE,
          total_inns |-> TotalInns(rs),
          successful_downloads |-> SuccessfulDownloads(rs),
          failed_downloads |-> FailedDownloads(rs),
          rate |-> SuccessRate(SuccessfulDownloads(rs), Len(rs)),
          lines |-> [j \in 1..Len(rs) |-> DetailLine(rs[j])]]

\* main, lines 510-519: process_inns returned; the report is generated and
\* written (the report file is taken to be writable) and main falls off its
\* end, or generate_report raises and except Exception exits with 1
Main_Report ==
    /\ pc = "returned"
    /\ LET r == GenerateReport(all_results)
       IN  IF r.raised
           THEN /\ report' = <<>>
                /\ exit_code' = <<1>>
           ELSE /\ report' = <<r>>
                /\ exit_code' = <<0>>
    /\ pc' = "exit"
    /\ UNCHANGED <<call, batch_vars, flow_vars, attempt, session_vars, exc,
                   raised, fs_vars>>

\* main, lines 521-526: an interrupt or an exception left process_inns
Main_Except ==
    /\ pc = "raised"
    /\ exit_code' = <<1>>
    /\ pc' = "exit"
    /\ UNCHANGED <<report, call, batch_vars, flow_vars, attempt, session_vars,
                   exc, raised, fs_vars>>

(***************************************************************************)
(* The browser writing into the download directory.                        *)
(***************************************************************************)
\* a download in flight ends: its file appears under a name that is free
\* in the download directory (the browser never overwrites)
BrowserWritesFile ==
    /\ driver # None
    /\ \E p \in pending, name \in DownloadNames \ DOMAIN download_dir,
          c \in ServedContents :
         /\ download_dir' = (name :> File(c, p)) @@ download_dir
         /\ pending' = pending \ {p}
    /\ UNCHANGED <<main_vars, pc, batch_vars, flow_vars, attempt, session_vars, exc,
                   raised, tree>>

Next ==
    \/ ProcessInns_Start
    \/ GetDriver_Enter
    \/ GetDriver_Exit
    \/ Interrupt
    \/ ProcessInns_Loop
    \/ SearchOrganization
    \/ DownloadReports_Open
    \/ HandleDownloadPopup_Trigger
    \/ DownloadSpecificYear_Trigger
    \/ WaitForDownload_Poll
    \/ HandleDownloadPopup_Finish
    \/ DownloadSpecificYear_Finish
    \/ DownloadReports_Collect
    \/ ProcessInns_Extend
    \/ ProcessInns_Delay
    \/ Main_Report
    \/ Main_Except
    \/ BrowserWritesFile

Spec == Init /\ [][Next]_vars

(***************************************************************************)
(* _organize_download run alone: the target directory holds any subset of  *)
(* the names the function can collide with, a file of name downloaded_file *)
(* sits in the download directory, the function is called, the browser     *)
(* downloads a file of the same name again, and so on.                     *)
(***************************************************************************)
FlowLabel(f) == IF f = "bulk" THEN YearOrAll(RequestedYear) ELSE Year2023

\* <stem>_<k><extension>
Numbered(filename, k) ==
    Stem(filename) \o <<"_">> \o IntToStr(k) \o Suffix(filename)

\* file names relocated: plain, without extension, a dot file, two dots,
\* a trailing dot
N_report == <<"r">>
N_dot_rc == <<".", "r", "c">>
N_report_t_zip == <<"r", ".", "t">> \o S_zip
N_report_dot == <<"r", ".">>

OrganizeNames == {N_report_zip, N_report, N_dot_rc, N_report_t_zip, N_report_dot}

\* a target directory an earlier run left: any of the name and its first
\* two numbered names; plus one file in another directory
OrganizeTrees(inn, label, filename) ==
    LET cand == {filename, Numbered(filename, 1), Numbered(filename, 2)}
    IN  {[p \in {<<inn, label, n>> : n \in names} \union {<<"B", "old", filename>>}
            |-> File("zip_xlsx", Old)] : names \in SUBSET cand}

InitOrganize ==
    /\ pc = "organize"
    /\ file_exists = TRUE
    /\ inns = <<"A">>
    /\ i = 1
    /\ all_results = <<>>
    /\ result_pos = <<>>
    /\ results = <<>>
    /\ flow \in {"bulk", "year"}
    /\ flow_result = <<>>
    /\ initial_files = {}
    /\ elapsed = 0
    /\ downloaded_file \in OrganizeNames
    /\ verified = "unset"
    /\ attempt = 1
    /\ driver = Session
    /\ wait = Session
    /\ browsers = {Session}
    /\ launched = 1
    /\ exc = None
    /\ raised = FALSE
    /\ download_dir = (downloaded_file :> File("zip_xlsx", <<1, FlowLabel(flow)>>))
    /\ tree \in OrganizeTrees(inns[i], FlowLabel(flow), downloaded_file)
    /\ pending = {}
    /\ report = <<>>
    /\ exit_code = <<>>
    /\ call = <<>>

\* _organize_download(downloaded_file, inn, label)
Organize_Call ==
    /\ pc = "organize"
    /\ downloaded_file \in DOMAIN download_dir
    /\ Cardinality(DOMAIN tree) < MaxTreeFiles
    /\ LET target == OrganizeTarget(tree, downloaded_file, inns[i], FlowLabel(flow))
       IN  /\ tree' = TreeAfterMove(tree, download_dir, downloaded_file, target)
           /\ download_dir' = DirAfterMove(download_dir, downloaded_file)
    /\ UNCHANGED <<main_vars, pc, batch_vars, flow_vars, attempt, session_vars, exc,
                   raised, pending>>

\* the browser saves a file of the same name again
Organize_Redownload ==
    /\ pc = "organize"
    /\ downloaded_file \notin DOMAIN download_dir
    /\ \E c \in ServedContents :
         download_dir' = (downloaded_file :>
                            File(c, <<Cardinality(DOMAIN tree) + 1, FlowLabel(flow)>>))
                         @@ download_dir
    /\ UNCHANGED <<main_vars, pc, batch_vars, flow_vars, attempt, session_vars, exc,
                   raised, tree, pending>>

NextOrganize == Organize_Call \/ Organize_Redownload

SpecOrganize == InitOrganize /\ [][NextOrganize]_vars

(***************************************************************************)
(* _wait_for_download run alone: the snapshot was taken of a directory     *)
(* that may hold files of earlier downloads, the download was triggered,   *)
(* and while the function polls the browser creates files, partial or      *)
(* complete, and renames a partial file to its final name.                 *)
(***************************************************************************)
\* the name a download has while the browser is still writing it
Partial(name) == name \o S_crdownload

N_report_tmp == <<"r">> \o S_tmp

\* what the directory may hold when the snapshot is taken
WaitStaleNames == {N_report_zip, N_report_tmp}

\* names the browser creates while the function polls
WaitNewNames == {N_report_zip, N_report_1_zip, Partial(N_report_1_zip), N_report_tmp}

InitWait ==
    /\ pc = "wait"
    /\ file_exists = TRUE
    /\ inns = <<"A">>
    /\ i = 1
    /\ all_results = <<>>
    /\ result_pos = <<>>
    /\ results = <<>>
    /\ flow = "bulk"
    /\ flow_result = <<>>
    /\ \E stale \in SUBSET WaitStaleNames :
         download_dir = [name \in stale |-> File("zip_xlsx", Old)]
    /\ initial_files = DOMAIN download_dir
    /\ elapsed = 0
    /\ downloaded_file = NoFile
    /\ verified = "unset"
    /\ attempt = 1
    /\ driver = Session
    /\ wait = Session
    /\ browsers = {Session}
    /\ launched = 1
    /\ exc = None
    /\ raised = FALSE
    /\ tree = <<>>
    /\ pending = {<<1, FlowLabel(flow)>>}
    /\ report = <<>>
    /\ exit_code = <<>>
    /\ call = <<>>

\* the browser creates a file in the download directory
Wait_BrowserCreates ==
    /\ pc = "wait"
    /\ Cardinality(DOMAIN download_dir \ initial_files) < MaxNewFiles
    /\ \E name \in WaitNewNames \ DOMAIN download_dir :
         download_dir' = (name :> File("zip_xlsx", <<i, FlowLabel(flow)>>))
                         @@ download_dir
    /\ UNCHANGED <<main_vars, pc, batch_vars, flow_vars, attempt, session_vars,
                   exc, raised, tree, pending>>

\* the browser finishes a download: the partial file gets its final name
Wait_BrowserCompletes ==
    /\ pc = "wait"
    /\ \E name \in DownloadNames \ DOMAIN download_dir :
         /\ Partial(name) \in DOMAIN download_dir
         /\ download_dir' =
              [n \in (DOMAIN download_dir \ {Partial(name)}) \union {name} |->
                 IF n = name THEN download_dir[Partial(name)] ELSE download_dir[n]]
    /\ UNCHANGED <<main_vars, pc, batch_vars, flow_vars, attempt, session_vars,
                   exc, raised, tree, pending>>

NextWait == WaitForDownload_Poll \/ Wait_BrowserCreates \/ Wait_BrowserCompletes

SpecWait == InitWait /\ [][NextWait]_vars

(***************************************************************************)
(* _verify_download run alone on a path of any of the names below, absent  *)
(* or holding a file of any content class.                                 *)
(***************************************************************************)
N_report_ZIP == <<"r", ".", "Z", "I", "P">>
N_report_xlsx == <<"r", ".", "x", "l", "s", "x">>

VerifyNames == {N_report_zip, N_report_ZIP, N_report_t_zip, N_report,
                N_report_xlsx, N_report_tmp}

InitVerify ==
    /\ pc = "verify"
    /\ file_exists = TRUE
    /\ inns = <<"A">>
    /\ i = 1
    /\ all_results = <<>>
    /\ result_pos = <<>>
    /\ results = <<>>
    /\ flow = "bulk"
    /\ flow_result = <<>>
    /\ initial_files = {}
    /\ elapsed = 0
    /\ downloaded_file = NoFile
    /\ verified = "unset"
    /\ attempt = 1
    /\ driver = Session
    /\ wait = Session
    /\ browsers = {Session}
    /\ launched = 1
    /\ exc = None
    /\ raised = FALSE
    /\ download_dir = <<>>
    /\ tree = <<>>
    /\ pending = {}
    /\ report = <<>>
    /\ exit_code = <<>>
    /\ \E name \in VerifyNames, exists \in BOOLEAN, content \in Contents :
         call = [name |-> name, exists |-> exists, content |-> content,
                 returned |-> <<>>]

\* _verify_download(file_path)
Verify_Call ==
    /\ pc = "verify"
    /\ call' = [call EXCEPT !.returned =
                  <<VerifyDownload(call.name, call.exists, call.content)>>]
    /\ pc' = "verified"
    /\ UNCHANGED <<report, exit_code, batch_vars, flow_vars, attempt,
                   session_vars, exc, raised, fs_vars>>

NextVerify == Verify_Call

SpecVerify == InitVerify /\ [][NextVerify]_vars

(***************************************************************************)
(* search_organization run alone on a result page: whether driver.get      *)
(* raised, whether the results container appeared within the wait, the     *)
(* texts of the <ins> elements in document order, whether click() raised.  *)
(***************************************************************************)
RECURSIVE LStrip(_)
LStrip(s) == IF s # <<>> /\ Head(s) = " " THEN LStrip(Tail(s)) ELSE s

RECURSIVE RStrip(_)
RStrip(s) ==
    IF s # <<>> /\ s[Len(s)] = " " THEN RStrip(SubSeq(s, 1, Len(s) - 1)) ELSE s

\* str.strip()
Strip(s) == RStrip(LStrip(s))

\* the identifier as text
InnText(inn) == <<inn>>

EntryMatchesPrefix(text, inn) ==
    Len(text) >= 1 /\ SubSeq(text, 1, 1) = InnText(inn)

\* element.text.strip() == inn
EntryMatches(text, inn) == Strip(text) = InnText(inn)

\* the for loop over inn_elements from position k: the position of the
\* first element that matches, 0 when the loop ends without one
RECURSIVE FirstMatch(_, _, _)
FirstMatch(entries, inn, k) ==
    IF k > Len(entries) THEN 0
    ELSE IF EntryMatches(entries[k], inn) THEN k
    ELSE FirstMatch(entries, inn, k + 1)

\* the body of search_organization on a page: what it returns and the
\* position of the element it clicked (0: none)
SearchPage(page, inn) ==
    IF page.get = "error" THEN [raised |-> FALSE, value |-> FALSE, clicked |-> 0]
    ELSE IF ~page.container
         THEN [raised |-> FALSE, value |-> FALSE, clicked |-> 0]  \* TimeoutException
    ELSE LET k == FirstMatch(page.entries, inn, 1)
         IN  IF k = 0 THEN [raised |-> FALSE, value |-> FALSE, clicked |-> 0]
             ELSE IF page.click = "error"
                  THEN [raised |-> FALSE, value |-> FALSE, clicked |-> 0]
             ELSE [raised |-> FALSE, value |-> TRUE, clicked |-> k]

\* texts of <ins> elements: an identifier, one padded with blanks, one
\* followed by more characters, another identifier, blank
EntryTexts == {<<"A">>, <<" ", "A", " ">>, <<"A", "B">>, <<"B">>, <<" ">>}

EntryLists == UNION {[1..n -> EntryTexts] : n \in 0..MaxEntries}

SearchPages ==
    [get : {"ok", "error"}, container : BOOLEAN, entries : EntryLists,
     click : {"ok", "error"}]

InitSearch ==
    /\ pc = "search_alone"
    /\ file_exists = TRUE
    /\ inns = <<"A">>
    /\ i = 1
    /\ all_results = <<>>
    /\ result_pos = <<>>
    /\ results = <<>>
    /\ flow = "none"
    /\ flow_result = <<>>
    /\ initial_files = {}
    /\ elapsed = 0
    /\ downloaded_file = NoFile
    /\ verified = "unset"
    /\ attempt = 1
    /\ driver = Session
    /\ wait = Session
    /\ browsers = {Session}
    /\ launched = 1
    /\ exc = None
    /\ raised = FALSE
    /\ download_dir = <<>>
    /\ tree = <<>>
    /\ pending = {}
    /\ report = <<>>
    /\ exit_code = <<>>
    /\ \E inn \in INNS, page \in SearchPages :
         call = [inn |-> inn, page |-> page, returned |-> <<>>]

\* search_organization(inn)
Search_Call ==
    /\ pc = "search_alone"
    /\ call' = [call EXCEPT !.returned = <<SearchPage(call.page, call.inn)>>]
    /\ pc' = "searched"
    /\ UNCHANGED <<report, exit_code, batch_vars, flow_vars, attempt,
                   session_vars, exc, raised, fs_vars>>

NextSearch == Search_Call

SpecSearch == InitSearch /\ [][NextSearch]_vars

(***************************************************************************)
(* The batch run with the steps of the script taken as long as one is      *)
(* enabled (the script is one thread that never waits for anything but its *)
(* own sleeps and bounded waits), while the browser also creates partial   *)
(* files, finishes them or leaves them unfinished.  Interrupts and the     *)
(* browser are not obliged to act.                                         *)
(***************************************************************************)
ScriptStep ==
    \/ ProcessInns_Start
    \/ GetDriver_Enter
    \/ GetDriver_Exit
    \/ ProcessInns_Loop
    \/ SearchOrganization
    \/ DownloadReports_Open
    \/ HandleDownloadPopup_Trigger
    \/ DownloadSpecificYear_Trigger
    \/ WaitForDownload_Poll
    \/ HandleDownloadPopup_Finish
    \/ DownloadSpecificYear_Finish
    \/ DownloadReports_Collect
    \/ ProcessInns_Extend
    \/ ProcessInns_Delay
    \/ Main_Report
    \/ Main_Except

\* the input files explored here: no identifier, or one
LiveLists == {<<>>, <<"A">>}

\* as Init, with the files that the passes for earlier identifiers may
\* have left in the download directory
InitLive ==
    /\ pc = "start"
    /\ file_exists \in BOOLEAN
    /\ inns \in LiveLists
    /\ file_exists = FALSE => inns = <<>>
    /\ i = 1
    /\ all_results = <<>>
    /\ result_pos = <<>>
    /\ results = <<>>
    /\ flow = "none"
    /\ flow_result = <<>>
    /\ initial_files = {}
    /\ elapsed = 0
    /\ downloaded_file = NoFile
    /\ verified = "unset"
    /\ attempt = 1
    /\ driver = None
    /\ wait = None
    /\ browsers = {}
    /\ launched = 0
    /\ exc = None
    /\ raised = FALSE
    /\ \E stale \in SUBSET WaitStaleNames :
         download_dir = [name \in stale |-> File("zip_xlsx", Old)]
    /\ tree \in OldTrees
    /\ pending = {}
    /\ report = <<>>
    /\ exit_code = <<>>
    /\ call = <<>>

NextLive == Next \/ Wait_BrowserCreates \/ Wait_BrowserCompletes

SpecLive == InitLive /\ [][NextLive]_vars /\ WF_vars(ScriptStep)

(***************************************************************************)
(* Properties.                                                             *)
(***************************************************************************)
\* positions of all_results added at loop position k
ResultsAt(k) == {j \in 1..Len(all_results) : result_pos[j] = k}

\* C1: once process_inns has returned, every identifier of the input list
\* has at least one DownloadResult in the returned list.
C1_EveryIdentifierHasResult ==
    (pc = "returned" /\ file_exists) =>
        \A k \in 1..Len(inns) :
            \E j \in 1..Len(all_results) : all_results[j].inn = inns[k]

\* C2: a download flow that has returned has yielded exactly one
\* DownloadResult.
C2_FlowYieldsOneResult ==
    pc = "flow_return" => Len(flow_result) = 1

\* C3: when the year flow returns inside download_reports, the bulk flow
\* and the year flow together have produced exactly two DownloadResults.
C3_BulkAndYearGiveTwoResults ==
    (pc = "flow_return" /\ flow = "year") =>
        Len(results) + Len(flow_result) = 2

\* C4: a flow whose relocated file was rejected by _verify_download returns
\* a failed DownloadResult.
C4_RejectedFileIsReported ==
    (pc = "flow_return" /\ verified = "false") =>
        (Len(flow_result) = 1 /\ ~flow_result[1].success)

\* C5: when process_inns has returned or has been left by an exception, no
\* browser session is open and the driver and wait fields are None.
C5_NoSessionLeftOpen ==
    pc \in {"returned", "raised"} =>
        (browsers = {} /\ driver = None /\ wait = None)

\* C6: "Organization not found" is recorded for an identifier only after
\* the search was attempted 3 times.
C6_FailureOnlyAfterThreeAttempts ==
    (/\ pc = "delay"
     /\ ResultsAt(i) # {}
     /\ \A j \in ResultsAt(i) : all_results[j].error_message = NotFoundText)
    => attempt = StopAfterAttempt

\* C7: an Exception raised while an identifier is processed ends as a
\* failed DownloadResult of that identifier; nothing but an interrupt (or
\* the driver failing before the loop) leaves process_inns by an exception;
\* a run that returns has processed every identifier; the results stand in
\* input order.
C7_ExceptionsDoNotAbortTheBatch ==
    /\ (pc = "delay" /\ raised) =>
           \E j \in ResultsAt(i) :
               all_results[j].inn = inns[i] /\ ~all_results[j].success
    /\ exc # None =>
           \/ exc = "KeyboardInterrupt"
           \/ exc = "WebDriverException" /\ i = 1 /\ all_results = <<>> /\ driver = None
    /\ (pc = "returned" /\ file_exists) => i = Len(inns) + 1
    /\ \A j \in 1..Len(all_results) :
           /\ result_pos[j] \in 1..Len(inns)
           /\ result_pos[j] <= i
           /\ all_results[j].inn = inns[result_pos[j]]
           /\ j > 1 => result_pos[j - 1] <= result_pos[j]

\* a run over two identifiers has returned; a step of the first raised and
\* was recorded, the second was processed and downloaded a file
C7_Witness ==
    /\ pc = "returned"
    /\ Len(inns) = 2
    /\ \E j \in ResultsAt(1) : all_results[j].error_message = ErrText
    /\ \E j \in ResultsAt(2) : all_results[j].success

\* C8: an identifier whose search failed has exactly one result, the
\* failure "Organization not found"; no download was triggered for it, no
\* file was produced or relocated for it, no flow is or was running for it.
C8_NotFoundSkipsDownloads ==
    \A k \in 1..Len(inns) :
        (\E j \in ResultsAt(k) : all_results[j].error_message = NotFoundText) =>
            /\ Cardinality(ResultsAt(k)) = 1
            /\ \A j \in ResultsAt(k) :
                   all_results[j] = Failure(inns[k], None, NotFoundText)
            /\ \A p \in pending : p[1] # k
            /\ \A n \in DOMAIN download_dir : download_dir[n].origin[1] # k
            /\ \A p \in DOMAIN tree : tree[p].origin[1] # k
            /\ k = i => (/\ pc \in {"delay", "finally", "raised", "exit"}
                         /\ flow = "none"
                         /\ results = <<>>)

\* the first identifier was not found, and the loop is at the second
C8_Witness ==
    /\ pc = "search"
    /\ i = 2
    /\ Len(all_results) = 1
    /\ all_results[1].error_message = NotFoundText

\* C9: a relocation leaves every file of the organized tree under its name
\* with its content, and adds exactly one path that was absent before.
C9_NeverOverwrites ==
    [][tree' # tree =>
         /\ \A p \in DOMAIN tree : p \in DOMAIN tree' /\ tree'[p] = tree[p]
         /\ Cardinality(DOMAIN tree' \ DOMAIN tree) = 1]_vars

\* two relocations of the same file name went into a directory that held
\* that name already: three files stand side by side
C9_Witness ==
    \E p \in DOMAIN tree, q \in DOMAIN tree, r \in DOMAIN tree :
        /\ p[1] = q[1] /\ p[2] = q[2] /\ p[1] = r[1] /\ p[2] = r[2]
        /\ p[3] = downloaded_file
        /\ tree[p].origin = Old
        /\ tree[q].origin # Old /\ tree[r].origin # Old
        /\ q # r

\* the name the claim gives: the file name when it is free, else the
\* numbered name of the smallest counter from 1 whose name is free
ExpectedName(names, filename) ==
    IF filename \notin names THEN filename
    ELSE Numbered(filename,
                  CHOOSE k \in 1..(Cardinality(names) + 1) :
                      /\ Numbered(filename, k) \notin names
                      /\ \A j \in 1..(k - 1) : Numbered(filename, j) \in names)

\* C10: a relocation of downloaded_file adds the path
\* <inn>/<label>/<expected name> holding that file, and the file is gone
\* from the download directory; report.zip beside report.zip becomes
\* report_1.zip, beside report.zip and report_1.zip it becomes report_2.zip.
C10_DestinationName ==
    [][tree' # tree =>
         LET names == TargetDirNames(tree, inns[i], FlowLabel(flow))
             dest == <<inns[i], FlowLabel(flow), ExpectedName(names, downloaded_file)>>
         IN  /\ DOMAIN tree' \ DOMAIN tree = {dest}
             /\ tree'[dest] = download_dir[downloaded_file]
             /\ downloaded_file \notin DOMAIN download_dir'
             /\ (downloaded_file = N_report_zip /\ names = {}) =>
                    dest[3] = N_report_zip
             /\ (downloaded_file = N_report_zip /\ names = {N_report_zip}) =>
                    dest[3] = N_report_1_zip
             /\ (downloaded_file = N_report_zip
                 /\ names = {N_report_zip, N_report_1_zip}) =>
                    dest[3] = N_report_2_zip]_vars

\* report.zip was relocated beside report.zip and report_1.zip
C10_Witness ==
    LET dir == [n \in {N_report_zip, N_report_1_zip, N_report_2_zip}
                  |-> <<"A", "all", n>>]
    IN  /\ \A n \in DOMAIN dir : dir[n] \in DOMAIN tree
        /\ tree[dir[N_report_zip]].origin = Old
        /\ tree[dir[N_report_1_zip]].origin = Old
        /\ tree[dir[N_report_2_zip]].origin # Old
        /\ downloaded_file = N_report_zip
        /\ N_report_zip \notin DOMAIN download_dir

\* the names of the listing that are not in the snapshot
NewFiles == (DOMAIN download_dir) \ initial_files

\* the step is one pass of the polling loop of _wait_for_download
PollStep == pc = "wait" /\ (elapsed' # elapsed \/ pc' # pc)

HasPartialSuffix(name) ==
    \/ EndsWith(name, <<".", "c", "r", "d", "o", "w", "n", "l", "o", "a", "d">>)
    \/ EndsWith(name, <<".", "t", "m", "p">>)

\* C11: a poll of _wait_for_download that finds the directory differing
\* from the snapshot by exactly one added file, not a partial one, returns
\* that file's name; a poll that finds no difference returns no file name,
\* and returns at all only once the timeout window is over; a name returned
\* is never in the snapshot and never ends with .crdownload or .tmp.
C11_WaitForDownload ==
    [][PollStep =>
        /\ (elapsed < Timeout /\ Cardinality(NewFiles) = 1
              /\ \A f \in NewFiles : ~HasPartialSuffix(f))
           => (pc' = "after_wait" /\ downloaded_file' \in NewFiles)
        /\ NewFiles = {}
           => (downloaded_file' = NoFile
               /\ (pc' = "after_wait" <=> elapsed >= Timeout))
        /\ (pc' = "after_wait" /\ downloaded_file' # NoFile)
           => (downloaded_file' \in DOMAIN download_dir
               /\ downloaded_file' \notin initial_files
               /\ ~HasPartialSuffix(downloaded_file'))]_vars

\* the detector returned the one complete file added, beside an older file
\* and a partial one of the snapshot
C11_Witness ==
    /\ pc = "after_wait"
    /\ downloaded_file = N_report_1_zip
    /\ initial_files = {N_report_zip, N_report_tmp}
    /\ NewFiles = {N_report_1_zip}

\* C15: a poll that lists a new file that is not partial returns a new
\* file that is not partial, whatever partial names the listing also holds
\* and in whatever order it lists them.
C15_CompleteFileIsReturned ==
    [][(PollStep /\ elapsed < Timeout
          /\ \E f \in NewFiles : ~HasPartialSuffix(f))
       => (pc' = "after_wait" /\ downloaded_file' \in NewFiles
             /\ ~HasPartialSuffix(downloaded_file'))]_vars

\* C12: _verify_download returns False for a missing file and for every
\* file of zero bytes; False for a file named .zip that cannot be opened
\* as an archive or whose integrity test reports a corrupted entry; True
\* for a sound archive, with or without an .xlsx entry.
C12_VerifyDownload ==
    (pc = "verified") =>
        LET ret == call.returned[1]
            zip_named == call.name \in {N_report_zip, N_report_ZIP, N_report_t_zip}
        IN  /\ ~call.exists => ret = FALSE
            /\ (call.exists /\ call.content = "empty") => ret = FALSE
            /\ (call.exists /\ zip_named
                  /\ call.content \in {"not_zip", "zip_corrupt", "zip_corrupt_noname"})
               => ret = FALSE
            /\ (call.exists /\ call.content \in {"zip_xlsx", "zip_noxlsx"})
               => ret = TRUE

\* generate_report was called: process_inns returned to main, which ran on
ReportCalled == pc = "exit" /\ exc = None

\* C13: for any result list, generate_report gives a report whose total of
\* identifiers is the number of distinct inn values, whose successful and
\* failed counts are the numbers of results with and without success
\* (adding up to the number of results), whose success rate is successful
\* over the number of results as a percentage with one decimal, followed by
\* one detail line per result in list order; for one success for A and one
\* not-found for B it shows 2, 1, 1 and 50.0%.
C13_ReportAggregates ==
    ReportCalled =>
        /\ report # <<>>
        /\ LET r == report[1]
               n == Len(all_results)
               distinct == {all_results[j].inn : j \in 1..n}
               good == {j \in 1..n : all_results[j].success}
           IN  /\ r.total_inns = Cardinality(distinct)
               /\ r.successful_downloads = Cardinality(good)
               /\ r.successful_downloads + r.failed_downloads = n
               /\ 2 * (r.rate * n - 1000 * Cardinality(good)) <= n
               /\ 2 * (1000 * Cardinality(good) - r.rate * n) < n
               /\ Len(r.lines) = n
               /\ \A j \in 1..n :
                    /\ r.lines[j].inn = all_results[j].inn
                    /\ r.lines[j].status = "ok" <=> all_results[j].success
                    /\ r.lines[j].year = YearOrAll(all_results[j].year)
               /\ (n = 2 /\ good = {1} /\ all_results[1].inn = "A"
                     /\ all_results[2].inn = "B")
                  => (r.total_inns = 2 /\ r.successful_downloads = 1
                        /\ r.failed_downloads = 1 /\ r.rate = 500)

\* C14: the process exits with a code other than 0 only when an interrupt
\* or an exception left process_inns; every other run, the input file
\* missing or without identifiers included, generates and writes the report
\* and exits with 0.
C14_ExitCode ==
    (pc = "exit") =>
        /\ exit_code = <<1>> => exc # None
        /\ exc = None => (exit_code = <<0>> /\ report # <<>>)

\* C16: every file a flow relocates into downloads/<inn>/<label>/ is a file
\* whose download that same flow triggered: the file of a download that an
\* earlier flow triggered and gave up on is never relocated by a later flow.
C16_RelocatedFileIsOwn ==
    [][\A p \in (DOMAIN tree') \ (DOMAIN tree) :
          /\ p[1] = inns[i]
          /\ p[2] = FlowLabel(flow)
          /\ tree'[p].origin = <<i, FlowLabel(flow)>>]_vars

\* texts whose stripped form is exactly the identifier
ExactTexts(inn) == {<<inn>>, <<" ", inn, " ">>}

\* C17: search_organization returns success only if the results container
\* appeared and an entry whose stripped text equals the identifier exactly
\* was clicked, the first such entry in display order; when the container
\* does not appear, no entry matches exactly, or a step raises, it returns
\* failure; it never raises.
C17_SearchOrganization ==
    (pc = "searched") =>
        LET ret == call.returned[1]
            page == call.page
            exact == {k \in 1..Len(page.entries) :
                        page.entries[k] \in ExactTexts(call.inn)}
        IN  /\ ~ret.raised
            /\ ret.value =>
                 /\ page.get = "ok" /\ page.container /\ page.click = "ok"
                 /\ ret.clicked \in exact
                 /\ \A k \in exact : ret.clicked <= k
            /\ (page.get = "error" \/ ~page.container \/ exact = {}
                  \/ page.click = "error") => (~ret.value /\ ret.clicked = 0)
            /\ (page.get = "ok" /\ page.container /\ exact # {}
                  /\ page.click = "ok") => ret.value

\* success on a page whose first entry only starts with the identifier and
\* whose second entry is the identifier padded with blanks
C17_Witness ==
    /\ pc = "searched"
    /\ call.inn = "A"
    /\ call.page.entries = << <<"A", "B">>, <<" ", "A", " ">> >>
    /\ call.returned[1].value
    /\ call.returned[1].clicked = 2

\* C18: during a batch run at most one browser session is live; it is
\* created once, before the first identifier is processed; every step of
\* the loop over the identifiers (searches, download flows, delays) runs
\* while that session is live and held by the driver; the session is quit
\* only when no identifier is processed any more, in a run without
\* interrupt after the last identifier and its delay; a missing input file
\* creates no session.
C18_OneSession ==
    /\ Cardinality(browsers) <= 1
    /\ launched <= 1
    /\ pc \in InLoop =>
         (launched = 1 /\ browsers = {Session} /\ driver = Session
            /\ wait = Session)
    /\ (pc = "loop" /\ i = 1) => (all_results = <<>> /\ launched = 1)
    /\ (launched = 1 /\ browsers = {}) =>
         /\ pc \in {"returned", "raised", "exit"}
         /\ exc \in {None, "KeyboardInterrupt"}
         /\ exc = None => i = Len(inns) + 1
    /\ ~file_exists => (launched = 0 /\ browsers = {})

\* the session was quit after two identifiers were processed
C18_Witness ==
    /\ pc = "returned"
    /\ Len(inns) = 2
    /\ i = 3
    /\ launched = 1
    /\ browsers = {}

\* C19: for any finite identifier list and any behaviour of the website
\* and of the download directory, process_inns eventually returns (or is
\* left by an exception): every poll for a download gives up when its
\* window is over, also when a partial file never completes or new files
\* keep appearing; the search makes a bounded number of attempts; the
\* search for a free target name ends.
C19_ProcessInnsReturns == <>(pc \in {"returned", "raised", "exit"})

\* process_inns returned with no download: a partial file that a download
\* of this run created is still unfinished in the download directory
C19_Witness ==
    /\ pc = "returned"
    /\ Len(inns) = 1
    /\ Len(all_results) >= 1
    /\ \A j \in 1..Len(all_results) : ~all_results[j].success
    /\ \E name \in DOMAIN download_dir :
         /\ HasPartialSuffix(name)
         /\ download_dir[name].origin # Old

\* the files of the organized tree that this run relocated
Relocated == {p \in DOMAIN tree : tree[p].origin # Old}

\* C20: when the batch run has ended, every successful result has a
\* file_path inside downloads/<inn>/<label>/ that names an existing file
\* which passes verification, and every file relocated during the run is
\* the file_path of exactly one successful result: no file that failed
\* verification is left in the organized tree.
C20_TreeMatchesResults ==
    (pc = "returned") =>
        /\ \A j \in 1..Len(all_results) :
             all_results[j].success =>
                LET p == all_results[j].file_path
                IN  /\ p \in DOMAIN tree
                    /\ p[1] = all_results[j].inn
                    /\ p[2] = YearOrAll(all_results[j].year)
                    /\ VerifyDownload(p[3], TRUE, tree[p].content)
        /\ \A p \in Relocated :
             Cardinality({j \in 1..Len(all_results) :
                            all_results[j].success
                            /\ all_results[j].file_path = p}) = 1

\* a result whose fields agree with its success flag
FieldConsistent(r) ==
    /\ r.success => (r.file_path # NoPath /\ r.error_message = None)
    /\ ~r.success => (r.file_path = NoPath /\ r.error_message # None)

\* C21: every DownloadResult the program creates is field-consistent:
\* success true comes with a file_path and no error_message, success false
\* with no file_path and an error_message; for the results of a flow
\* (flow_result), of download_reports (results) and of process_inns
\* (all_results).
C21_ResultsAreFieldConsistent ==
    /\ \A j \in 1..Len(flow_result) : FieldConsistent(flow_result[j])
    /\ \A j \in 1..Len(results) : FieldConsistent(results[j])
    /\ \A j \in 1..Len(all_results) : FieldConsistent(all_results[j])

\* a returned list with a success, a rejected file of the bulk flow and
\* an identifier that was not found
C21_Witness ==
    /\ pc = "returned"
    /\ \E j \in 1..Len(all_results) : all_results[j].success
    /\ \E j \in 1..Len(all_results) :
         all_results[j].error_message = VerificationText
    /\ \E j \in 1..Len(all_results) :
         all_results[j].error_message = NotFoundText

====
